---- MODULE Spec2Model ----
(***************************************************************************)
(* A model of the country-leaders scraper: WikipediaScraper                *)
(* (src/src/leaders_scraper.py) and run_scraper (src/main.py).             *)
(*                                                                         *)
(* Python strings are sequences of one-character strings; a Python value   *)
(* that may be None or a str is a tagged record (PyNone, PyStr(s)).  A     *)
(* dict is a function from its keys; a dict whose key order matters is a   *)
(* record [keys, vals].                                                    *)
(***************************************************************************)
EXTENDS Integers, Sequences, FiniteSets, TLC

VARIABLES
    pc,                  \* position of the main thread
    attrs,               \* attribute names the scraper object has
    cookie,              \* self.cookie
    leaders_data,        \* self.leaders_data
    call,                \* outcome of the last direct call of get_countries / get_leaders
    limit_per_country,   \* fetch_leaders argument
    use_multithreading,  \* fetch_leaders / enrich_all_leaders argument
    countries,           \* fetch_leaders local: the upstream country listing
    cidx,                \* position of the for loop over countries
    leaders_per_country, \* fetch_leaders local
    upstream,            \* the leaders the API returned for the current country
    batch,               \* the leaders handed to enrich_all_leaders, as they were at the call
    pool,                \* the ThreadPoolExecutor of the current batch
    fut,                 \* per leader of the batch: state of its enrich_leader call
    res,                 \* per leader of the batch: the dict enrich_leader returned
    finished,            \* indices of the batch in the order their calls ended
    pageGets,            \* indices of the batch whose call issued a page GET
    k,                   \* next position the main thread enriches / collects
    out,                 \* the list enrich_all_leaders is building
    file,                \* leaders_data.json
    doc,                 \* the HTML document handed to get_first_paragraph
    fpRet                \* what get_first_paragraph returned

vars == <<pc, attrs, cookie, leaders_data, call, limit_per_country,
          use_multithreading, countries, cidx, leaders_per_country, upstream,
          batch, pool, fut, res, finished, pageGets, k, out, file, doc, fpRet>>

----------------------------------------------------------------------------
(* Bounds of the model *)

MaxParas == 2
MaxCore == 6
MaxCountries == 2
MaxLeaders == 3
MaxLimit == 1
MaxWorkers == 2

----------------------------------------------------------------------------
(* Python values *)

PyNone == [type |-> "NoneType"]
PyStr(s) == [type |-> "str", v |-> s]
NotReturned == [type |-> "pending"]

\* bool(v) for None and str
Truthy(v) == v.type = "str" /\ v.v # <<>>

Min(a, b) == IF a <= b THEN a ELSE b
Max(a, b) == IF a >= b THEN a ELSE b

----------------------------------------------------------------------------
(* Text: p.get_text(strip=True) and re.sub(r"\[[0-9]+\]", "", text) *)

MinLen == 80

IsDigit(c) == c \in {"0", "1", "2", "3", "4", "5", "6", "7", "8", "9"}
IsSpace(c) == c \in {" ", "\n", "\t"}

RECURSIVE LStrip(_)
LStrip(s) ==
    IF s # <<>> /\ IsSpace(Head(s)) THEN LStrip(Tail(s)) ELSE s

RECURSIVE RStrip(_)
RStrip(s) ==
    IF s # <<>> /\ IsSpace(s[Len(s)]) THEN RStrip(SubSeq(s, 1, Len(s) - 1)) ELSE s

\* str.strip()
Strip(s) == LStrip(RStrip(s))

\* A paragraph is the sequence of its text nodes.  get_text(strip=True)
\* strips every node, drops the nodes that are then empty and joins the rest.
RECURSIVE GetText(_)
GetText(p) ==
    IF p = <<>> THEN <<>> ELSE Strip(Head(p)) \o GetText(Tail(p))

\* The position of the last digit of the run of digits that starts at i
\* (i - 1 when s[i] is no digit).
RECURSIVE DigitsEnd(_, _)
DigitsEnd(s, i) ==
    IF i <= Len(s) /\ IsDigit(s[i]) THEN DigitsEnd(s, i + 1) ELSE i - 1

\* The position of the "]" that ends a match of \[[0-9]+\] starting at i,
\* or 0 when there is no match at i.
MatchEnd(s, i) ==
    IF s[i] # "["
    THEN 0
    ELSE LET e == DigitsEnd(s, i + 1)
         IN  IF e >= i + 1 /\ e + 1 <= Len(s) /\ s[e + 1] = "]"
             THEN e + 1
             ELSE 0

\* The positions from i on where a match of \[[0-9]+\] starts.
MatchStarts(s, i) == {j \in i..Len(s) : MatchEnd(s, j) > 0}

\* re.sub from position i on: the scan copies the text up to the leftmost
\* match, drops the match and goes on from its end.
RECURSIVE ReSubFrom(_, _)
ReSubFrom(s, i) ==
    IF MatchStarts(s, i) = {}
    THEN SubSeq(s, i, Len(s))
    ELSE LET j == CHOOSE x \in MatchStarts(s, i) : \A y \in MatchStarts(s, i) : x <= y
         IN  SubSeq(s, i, j - 1) \o ReSubFrom(s, MatchEnd(s, j) + 1)

ReSub(s) == ReSubFrom(s, 1)

\* Variant: len(text) >= 80
QualifiesAtLeast(text) == Len(text) >= MinLen

\* if len(text) > 80
Qualifies(text) == Len(text) > MinLen

\* for p in soup.find_all("p"): ... return cleaned; return ""
RECURSIVE get_first_paragraph(_)
get_first_paragraph(d) ==
    IF d = <<>>
    THEN <<>>
    ELSE LET text == GetText(Head(d))
         IN  IF Qualifies(text)
             THEN ReSub(text)
             ELSE get_first_paragraph(Tail(d))

----------------------------------------------------------------------------
(* Documents get_first_paragraph is applied to *)

Fill(n) == [i \in 1..n |-> "a"]
Spaces(b) == IF b THEN <<" ">> ELSE <<>>

RECURSIVE SeqsUpTo(_, _)
SeqsUpTo(S, n) ==
    IF n = 0
    THEN {<<>>}
    ELSE LET shorter == SeqsUpTo(S, n - 1)
         IN  shorter \cup {Append(s, x) : s \in {t \in shorter : Len(t) = n - 1}, x \in S}

\* A paragraph of two text nodes: a short one, with or without whitespace
\* around it, and a run of letters.
Para(core, sp, pad) == <<Spaces(sp) \o core \o Spaces(sp), Fill(pad)>>

ScanCores == {<<>>, <<"[", "1", "]">>}
ScanPads == {0, MinLen - 3, MinLen - 2, MinLen, MinLen + 1}
ScanParas == {Para(c, sp, pad) : c \in ScanCores, sp \in BOOLEAN, pad \in ScanPads}
ScanDocs == SeqsUpTo(ScanParas, MaxParas)

CleanCores == SeqsUpTo({"[", "1", "]"}, MaxCore)
CleanDocs == {<<Para(c, FALSE, MinLen + 1)>> : c \in CleanCores}

----------------------------------------------------------------------------
(* Leader records, URLs and the pages behind them *)

PyInt(n) == [type |-> "int", v |-> n]

\* d[key] = v on a dict whose key order does not matter
DictPut(d, key, v) ==
    [x \in DOMAIN d \cup {key} |-> IF x = key THEN v ELSE d[x]]

\* The percent escapes that occur in the URLs below.
PctTable == (<<"4", "1">> :> "A") @@ (<<"2", "5">> :> "%")

\* urllib.parse.unquote: every %XX escape becomes the character it encodes,
\* anything else stays as it is.
RECURSIVE Unquote(_)
Unquote(s) ==
    IF s = <<>>
    THEN <<>>
    ELSE IF Head(s) = "%" /\ Len(s) >= 3 /\ <<s[2], s[3]>> \in DOMAIN PctTable
         THEN <<PctTable[<<s[2], s[3]>>]>> \o Unquote(SubSeq(s, 4, Len(s)))
         ELSE <<Head(s)>> \o Unquote(Tail(s))

UrlPlain == <<"u", "/", "a">>
UrlEncoded == <<"u", "/", "%", "4", "1">>
UrlTwice == <<"u", "/", "%", "2", "5", "4", "1">>

\* A lead paragraph with citation markers, after a short one.
PageLead == <<Para(<<"[", "1", "]">>, TRUE, 0), Para(<<"[", "1", "]">>, TRUE, MinLen + 1),
              Para(<<>>, FALSE, MinLen + 2)>>
\* No paragraph longer than MinLen.
PageStub == <<Para(<<"[", "1", "]">>, TRUE, 0), Para(<<>>, FALSE, MinLen)>>
\* A lead paragraph longer than PageLead's.
PageOther == <<Para(<<>>, FALSE, MinLen + 3)>>

\* The web: what a GET of a URL answers when it answers.
WebPages ==
    (UrlPlain :> PageLead) @@ (Unquote(UrlEncoded) :> PageStub) @@ (UrlEncoded :> PageOther)

PageAt(url) == IF url \in DOMAIN WebPages THEN WebPages[url] ELSE <<>>

LeaderNoKey == [first_name |-> 1]
LeaderNone == [first_name |-> 2, wikipedia_url |-> PyNone]
LeaderEmpty == [first_name |-> 3, wikipedia_url |-> PyStr(<<>>)]
LeaderPlain == [first_name |-> 4, wikipedia_url |-> PyStr(UrlPlain)]
LeaderEncoded == [first_name |-> 5, wikipedia_url |-> PyStr(UrlEncoded)]
LeaderTwice == [first_name |-> 6, wikipedia_url |-> PyStr(UrlTwice)]

\* The records a direct call of enrich_all_leaders is given.
EnrichPool == {LeaderNoKey, LeaderNone, LeaderEmpty, LeaderPlain, LeaderEncoded, LeaderTwice}

CountryCodes == {"be", "us"}
Listings == SeqsUpTo(CountryCodes, MaxCountries)

\* The leaders API: the i-th leader of a country.  Every second one has a
\* reference page; "be" starts with one that has, "us" with one that has not.
ApiLeader(country, i) ==
    IF (i + (IF country = "be" THEN 1 ELSE 0)) % 2 = 0
    THEN [first_name |-> (IF country = "be" THEN 10 ELSE 20) + i,
          wikipedia_url |-> PyStr(IF i > 2 THEN UrlEncoded ELSE UrlPlain)]
    ELSE [first_name |-> (IF country = "be" THEN 10 ELSE 20) + i]

\* What GET /leaders?country=... may answer: the country has any number of
\* leaders up to MaxLeaders.
ApiAnswers(country) ==
    {[i \in 1..n |-> ApiLeader(country, i)] : n \in 0..MaxLeaders}

ApiLeaders == UNION {{ls[i] : i \in DOMAIN ls} : ls \in UNION {ApiAnswers(c) : c \in CountryCodes}}
Limits == {PyNone} \cup {PyInt(n) : n \in (-1)..MaxLimit}

\* Variant: leader.get("wikipedia_url") is not None
HasUrlNotNone(leader) ==
    "wikipedia_url" \in DOMAIN leader /\ leader["wikipedia_url"] # PyNone

\* if "wikipedia_url" in leader and leader["wikipedia_url"]
HasUrl(leader) ==
    "wikipedia_url" \in DOMAIN leader /\ Truthy(leader["wikipedia_url"])

\* Variant: the summary is set only when a paragraph was found
EnrichLeaderDropEmpty(leader) ==
    IF HasUrl(leader)
    THEN LET url == Unquote(leader["wikipedia_url"].v)
             summary == get_first_paragraph(PageAt(url))
             decoded == DictPut(leader, "wikipedia_url", PyStr(url))
         IN  IF summary = <<>> THEN decoded ELSE DictPut(decoded, "summary", PyStr(summary))
    ELSE leader

\* enrich_leader when the page GET answers
enrich_leader(leader) ==
    IF HasUrl(leader)
    THEN LET url == Unquote(leader["wikipedia_url"].v)
         IN  DictPut(DictPut(leader, "wikipedia_url", PyStr(url)),
                     "summary", PyStr(get_first_paragraph(PageAt(url))))
    ELSE leader

\* Variant: ls[:stop + 1]
SliceOffByOne(ls, stop) == SubSeq(ls, 1, Min(Len(ls), stop + 1))

\* ls[:stop]
PySliceTo(ls, stop) ==
    SubSeq(ls, 1, IF stop < 0 THEN Max(0, Len(ls) + stop) ELSE Min(Len(ls), stop))

\* if limit_per_country is not None: leaders_data = leaders_data[:limit_per_country]
Truncate(ls, limit) ==
    IF limit # PyNone THEN PySliceTo(ls, limit.v) ELSE ls

IndexOf(s, x) == CHOOSE i \in 1..Len(s) : s[i] = x

\* Variant: a list of (key, value) pairs, appended to
DictSetAppend(d, key, v) ==
    [keys |-> Append(d.keys, key), vals |-> Append(d.vals, v)]

\* d[key] = v on a dict whose key order matters: a new key goes last, a
\* key already there keeps its place and gets the new value.
DictSet(d, key, v) ==
    IF \E i \in 1..Len(d.keys) : d.keys[i] = key
    THEN [keys |-> d.keys, vals |-> [d.vals EXCEPT ![IndexOf(d.keys, key)] = v]]
    ELSE [keys |-> Append(d.keys, key), vals |-> Append(d.vals, v)]

----------------------------------------------------------------------------
(* The state outside a run of the pipeline *)

EmptyDict == [keys |-> <<>>, vals |-> <<>>]
NoCall == [method |-> "none"]

Idle ==
    /\ pc = "idle"
    /\ attrs = {}
    /\ cookie = "unset"
    /\ leaders_data = EmptyDict
    /\ call = NoCall
    /\ limit_per_country = PyNone
    /\ use_multithreading = FALSE
    /\ countries = <<>>
    /\ cidx = 0
    /\ leaders_per_country = EmptyDict
    /\ upstream = <<>>
    /\ batch = <<>>
    /\ pool = "none"
    /\ fut = <<>>
    /\ res = <<>>
    /\ finished = <<>>
    /\ pageGets = {}
    /\ k = 0
    /\ out = <<>>
    /\ file = [state |-> "absent"]

pipeVars == <<pc, attrs, cookie, leaders_data, call, limit_per_country,
              use_multithreading, countries, cidx, leaders_per_country,
              upstream, batch, pool, fut, res, finished, pageGets, k, out, file>>

----------------------------------------------------------------------------
(* get_first_paragraph applied to a parsed page *)

InitText ==
    /\ Idle
    /\ doc \in ScanDocs \cup CleanDocs
    /\ fpRet = NotReturned

GetFirstParagraph ==
    /\ pc = "idle"
    /\ fpRet = NotReturned
    /\ fpRet' = PyStr(get_first_paragraph(doc))
    /\ UNCHANGED <<doc, pipeVars>>

NextText == GetFirstParagraph

SpecText == InitText /\ [][NextText]_vars

----------------------------------------------------------------------------
(* WikipediaScraper and run_scraper *)

InitAttrs == {"base_url", "cookie_url", "country_endpoint", "leaders_endpoint",
              "session", "cookie", "leaders_data"}

NoFile == [state |-> "absent"]

AllPending(n) == [i \in 1..n |-> "pending"]
NoResults(n) == [i \in 1..n |-> NotReturned]

Running == {i \in DOMAIN fut : fut[i] = "running"}
Pending == {i \in DOMAIN fut : fut[i] = "pending"}

Init ==
    /\ pc = "start"
    /\ attrs = {}
    /\ cookie = "unset"
    /\ leaders_data = EmptyDict
    /\ call = NoCall
    /\ limit_per_country = PyNone
    /\ use_multithreading = FALSE
    /\ countries = <<>>
    /\ cidx = 0
    /\ leaders_per_country = EmptyDict
    /\ upstream = <<>>
    /\ batch = <<>>
    /\ pool = "none"
    /\ fut = <<>>
    /\ res = <<>>
    /\ finished = <<>>
    /\ pageGets = {}
    /\ k = 0
    /\ out = <<>>
    /\ file = NoFile
    /\ doc = <<>>
    /\ fpRet = NotReturned

\* scraper = WikipediaScraper(): the attributes are set in order, the cookie
\* GET may raise.
Construct ==
    /\ pc = "start"
    /\ \E ok \in BOOLEAN :
        IF ok
        THEN /\ attrs' = InitAttrs
             /\ cookie' = "jar"
             /\ pc' = "constructed"
        ELSE /\ attrs' = {"base_url", "cookie_url", "country_endpoint",
                          "leaders_endpoint", "session"}
             /\ cookie' = cookie
             /\ pc' = "failed"
    /\ UNCHANGED <<leaders_data, call, limit_per_country, use_multithreading,
                   countries, cidx, leaders_per_country, upstream, batch, pool,
                   fut, res, finished, pageGets, k, out, file, doc, fpRet>>

\* A method that reads the attributes `needs` and then issues one GET whose
\* JSON body is `value`.  Reading an attribute the object does not have
\* raises AttributeError before any request is made; nothing catches it.
ApiCall(method, needs, value, ok) ==
    /\ pc = "constructed"
    /\ call' = IF ~(needs \subseteq attrs)
               THEN [method |-> method, outcome |-> "AttributeError", gets |-> 0]
               ELSE IF ok
                    THEN [method |-> method, outcome |-> "returned", gets |-> 1,
                          value |-> value]
                    ELSE [method |-> method, outcome |-> "RequestException", gets |-> 1]
    /\ pc' = IF call'.outcome = "returned" THEN "constructed" ELSE "failed"
    /\ UNCHANGED <<attrs, cookie, leaders_data, limit_per_country,
                   use_multithreading, countries, cidx, leaders_per_country,
                   upstream, batch, pool, fut, res, finished, pageGets, k, out,
                   file, doc, fpRet>>

\* self.session.get(self.countries_url, cookies=self.cookies)
GetCountriesNeeds == {"session", "countries_url", "cookies"}

GetCountries ==
    \E cs \in Listings, ok \in BOOLEAN :
        ApiCall("get_countries", GetCountriesNeeds, cs, ok)

\* self.session.get(self.leaders_url, cookies=self.cookies, params=params)
GetLeadersNeeds == {"session", "leaders_url", "cookies"}

GetLeaders(country) ==
    \E ls \in ApiAnswers(country), ok \in BOOLEAN :
        ApiCall("get_leaders", GetLeadersNeeds, ls, ok)

\* fetch_leaders, up to the loop: the country listing is requested.
FetchLeaders(limit, mt) ==
    /\ pc = "constructed"
    /\ limit_per_country' = limit
    /\ use_multithreading' = mt
    /\ \E cs \in Listings, ok \in BOOLEAN :
        IF ok
        THEN /\ countries' = cs
             /\ cidx' = 1
             /\ leaders_per_country' = EmptyDict
             /\ pc' = "loop"
        ELSE /\ UNCHANGED <<countries, cidx, leaders_per_country>>
             /\ pc' = "failed"
    /\ UNCHANGED <<attrs, cookie, leaders_data, call, upstream, batch, pool,
                   fut, res, finished, pageGets, k, out, file, doc, fpRet>>

\* One turn of the loop up to the call of enrich_all_leaders: the leaders
\* of the country are requested and truncated; in concurrent mode the pool
\* is created and executor.map submits one call per leader.
LoopNext ==
    /\ pc = "loop"
    /\ cidx <= Len(countries)
    /\ \E ls \in ApiAnswers(countries[cidx]), ok \in BOOLEAN :
        IF ok
        THEN /\ upstream' = ls
             /\ batch' = Truncate(ls, limit_per_country)
             /\ fut' = AllPending(Len(batch'))
             /\ res' = NoResults(Len(batch'))
             /\ finished' = <<>>
             /\ pageGets' = {}
             /\ k' = 1
             /\ out' = <<>>
             /\ pool' = IF use_multithreading THEN "open" ELSE "none"
             /\ pc' = IF use_multithreading THEN "map" ELSE "seq"
        ELSE /\ UNCHANGED <<upstream, batch, fut, res, finished, pageGets, k, out, pool>>
             /\ pc' = "failed"
    /\ UNCHANGED <<attrs, cookie, leaders_data, call, limit_per_country,
                   use_multithreading, countries, cidx, leaders_per_country,
                   file, doc, fpRet>>

\* enrich_leader on each record of the pool
Enriched == [leader \in EnrichPool \cup ApiLeaders |-> enrich_leader(leader)]

\* One call enrich_leader(batch[i]), from start to end.  A leader with a
\* URL costs one page GET, which answers or raises.
EnrichCall(i, ok) ==
    /\ fut' = [fut EXCEPT ![i] = IF HasUrl(batch[i]) /\ ~ok THEN "raised" ELSE "done"]
    /\ res' = [res EXCEPT ![i] = IF fut'[i] = "done" THEN Enriched[batch[i]] ELSE @]
    /\ pageGets' = IF HasUrl(batch[i]) THEN pageGets \cup {i} ELSE pageGets
    /\ finished' = Append(finished, i)

\* [self.enrich_leader(leader) for leader in leaders]: the next leader
SeqEnrich ==
    /\ pc = "seq"
    /\ k <= Len(batch)
    /\ \E ok \in BOOLEAN :
        /\ EnrichCall(k, ok)
        /\ IF fut'[k] = "done"
           THEN /\ out' = Append(out, res'[k])
                /\ k' = k + 1
                /\ pc' = pc
           ELSE /\ UNCHANGED <<out, k>>
                /\ pc' = "failed"
    /\ UNCHANGED <<attrs, cookie, leaders_data, call, limit_per_country,
                   use_multithreading, countries, cidx, leaders_per_country,
                   upstream, batch, pool, file, doc, fpRet>>

\* the list comprehension is complete
SeqReturn ==
    /\ pc = "seq"
    /\ k > Len(batch)
    /\ pc' = "returned"
    /\ UNCHANGED <<attrs, cookie, leaders_data, call, limit_per_country,
                   use_multithreading, countries, cidx, leaders_per_country,
                   upstream, batch, pool, fut, res, finished, pageGets, k, out,
                   file, doc, fpRet>>

\* A worker thread takes the oldest queued call.
WorkerStart(i) ==
    /\ pool = "open"
    /\ i \in Pending
    /\ \A j \in Pending : i <= j
    /\ Cardinality(Running) < MaxWorkers
    /\ fut' = [fut EXCEPT ![i] = "running"]
    /\ UNCHANGED <<pc, attrs, cookie, leaders_data, call, limit_per_country,
                   use_multithreading, countries, cidx, leaders_per_country,
                   upstream, batch, pool, res, finished, pageGets, k, out,
                   file, doc, fpRet>>

\* A worker thread's call ends.
WorkerFinish(i) ==
    /\ pool = "open"
    /\ i \in Running
    /\ \E ok \in BOOLEAN : EnrichCall(i, ok)
    /\ UNCHANGED <<pc, attrs, cookie, leaders_data, call, limit_per_country,
                   use_multithreading, countries, cidx, leaders_per_country,
                   upstream, batch, pool, k, out, file, doc, fpRet>>

\* Variant: the results in the order the calls ended (as_completed)
FutureAtCompleted(n) == IF n <= Len(finished) THEN finished[n] ELSE n

\* executor.map yields the results in the order the calls were submitted:
\* the n-th result is the n-th future's.
FutureAt(n) == n

\* Variant: a future without result (failed, or not yet done) is skipped
MapCollectSkipping ==
    /\ pc = "map"
    /\ \/ /\ k <= Len(batch)
          /\ fut[FutureAt(k)] = "done"
          /\ out' = Append(out, res[FutureAt(k)])
          /\ k' = k + 1
          /\ UNCHANGED <<pc, fut>>
       \/ /\ k <= Len(batch)
          /\ fut[FutureAt(k)] # "done"
          /\ k' = k + 1
          /\ UNCHANGED <<pc, fut, out>>
       \/ /\ k > Len(batch)
          /\ pc' = "shutdown_ok"
          /\ UNCHANGED <<fut, k, out>>
    /\ UNCHANGED <<attrs, cookie, leaders_data, call, limit_per_country,
                   use_multithreading, countries, cidx, leaders_per_country,
                   upstream, batch, pool, res, finished, pageGets, file, doc, fpRet>>

\* list(executor.map(...)): the main thread waits for the next future in
\* turn; a result is appended, an exception is raised again after the
\* futures still queued are cancelled; after the last one the list is done.
MapCollect ==
    /\ pc = "map"
    /\ \/ /\ k <= Len(batch)
          /\ fut[FutureAt(k)] = "done"
          /\ out' = Append(out, res[FutureAt(k)])
          /\ k' = k + 1
          /\ UNCHANGED <<pc, fut>>
       \/ /\ k <= Len(batch)
          /\ fut[FutureAt(k)] = "raised"
          /\ fut' = [i \in DOMAIN fut |-> IF fut[i] = "pending" THEN "cancelled" ELSE fut[i]]
          /\ pc' = "shutdown_raise"
          /\ UNCHANGED <<k, out>>
       \/ /\ k > Len(batch)
          /\ pc' = "shutdown_ok"
          /\ UNCHANGED <<fut, k, out>>
    /\ UNCHANGED <<attrs, cookie, leaders_data, call, limit_per_country,
                   use_multithreading, countries, cidx, leaders_per_country,
                   upstream, batch, pool, res, finished, pageGets, file, doc, fpRet>>

\* Variant: shutdown(wait=False)
PoolShutdownNoWait ==
    /\ pc \in {"shutdown_ok", "shutdown_raise"}
    /\ pool' = "shut"
    /\ pc' = IF pc = "shutdown_ok" THEN "returned" ELSE "failed"
    /\ UNCHANGED <<attrs, cookie, leaders_data, call, limit_per_country,
                   use_multithreading, countries, cidx, leaders_per_country,
                   upstream, batch, fut, res, finished, pageGets, k, out,
                   file, doc, fpRet>>

\* Leaving the with block: executor.shutdown(wait=True) returns once no
\* call is queued or running; then enrich_all_leaders returns or raises.
PoolShutdown ==
    /\ pc \in {"shutdown_ok", "shutdown_raise"}
    /\ Running = {}
    /\ Pending = {}
    /\ pool' = "shut"
    /\ pc' = IF pc = "shutdown_ok" THEN "returned" ELSE "failed"
    /\ UNCHANGED <<attrs, cookie, leaders_data, call, limit_per_country,
                   use_multithreading, countries, cidx, leaders_per_country,
                   upstream, batch, fut, res, finished, pageGets, k, out,
                   file, doc, fpRet>>

\* leaders_per_country[country] = leaders_data; the pool, the futures and
\* the list of enrich_all_leaders are gone once it has returned.
StoreCountry ==
    /\ pc = "returned"
    /\ leaders_per_country' = DictSet(leaders_per_country, countries[cidx], out)
    /\ cidx' = cidx + 1
    /\ pc' = "loop"
    /\ pool' = "none"
    /\ fut' = <<>>
    /\ res' = <<>>
    /\ finished' = <<>>
    /\ pageGets' = {}
    /\ k' = 0
    /\ out' = <<>>
    /\ UNCHANGED <<attrs, cookie, leaders_data, call, limit_per_country,
                   use_multithreading, countries, upstream, batch, file, doc, fpRet>>

\* After the loop: self.leaders_data = leaders_per_country; return
FetchReturn ==
    /\ pc = "loop"
    /\ cidx > Len(countries)
    /\ leaders_data' = leaders_per_country
    /\ pc' = "fetched"
    /\ UNCHANGED <<attrs, cookie, call, limit_per_country, use_multithreading,
                   countries, cidx, leaders_per_country, upstream, batch, pool,
                   fut, res, finished, pageGets, k, out, file, doc, fpRet>>

\* scraper.to_json_file("leaders_data.json"); opening the file may raise.
ToJsonFile ==
    /\ pc = "fetched"
    /\ \E ok \in BOOLEAN :
        IF ok
        THEN /\ file' = [state |-> "written", data |-> leaders_data]
             /\ pc' = "saved"
        ELSE /\ file' = file
             /\ pc' = "failed"
    /\ UNCHANGED <<attrs, cookie, leaders_data, call, limit_per_country,
                   use_multithreading, countries, cidx, leaders_per_country,
                   upstream, batch, pool, fut, res, finished, pageGets, k, out,
                   doc, fpRet>>

Next ==
    \/ Construct
    \/ GetCountries
    \/ \E c \in CountryCodes : GetLeaders(c)
    \/ \E limit \in Limits, mt \in BOOLEAN : FetchLeaders(limit, mt)
    \/ LoopNext
    \/ SeqEnrich
    \/ SeqReturn
    \/ \E i \in DOMAIN fut : WorkerStart(i)
    \/ \E i \in DOMAIN fut : WorkerFinish(i)
    \/ MapCollect
    \/ PoolShutdown
    \/ StoreCountry
    \/ FetchReturn
    \/ ToJsonFile

Spec == Init /\ [][Next]_vars

----------------------------------------------------------------------------
(* enrich_all_leaders called directly on a constructed scraper *)

InitEnrich ==
    /\ attrs = InitAttrs
    /\ cookie = "jar"
    /\ leaders_data = EmptyDict
    /\ call = NoCall
    /\ limit_per_country = PyNone
    /\ use_multithreading \in BOOLEAN
    /\ countries = <<>>
    /\ cidx = 0
    /\ leaders_per_country = EmptyDict
    /\ upstream = <<>>
    /\ batch \in SeqsUpTo(EnrichPool, MaxLeaders)
    /\ pool = IF use_multithreading THEN "open" ELSE "none"
    /\ pc = IF use_multithreading THEN "map" ELSE "seq"
    /\ fut = AllPending(Len(batch))
    /\ res = NoResults(Len(batch))
    /\ finished = <<>>
    /\ pageGets = {}
    /\ k = 1
    /\ out = <<>>
    /\ file = NoFile
    /\ doc = <<>>
    /\ fpRet = NotReturned

NextEnrich ==
    \/ SeqEnrich
    \/ SeqReturn
    \/ \E i \in DOMAIN fut : WorkerStart(i)
    \/ \E i \in DOMAIN fut : WorkerFinish(i)
    \/ MapCollect
    \/ PoolShutdown

SpecEnrich == InitEnrich /\ [][NextEnrich]_vars

----------------------------------------------------------------------------
(* Properties *)

Returned == fpRet.type = "str"

\* A citation marker: "[", one or more digits, "]"
IsMarker(s, i, j) ==
    /\ i + 1 < j
    /\ s[i] = "["
    /\ s[j] = "]"
    /\ \A x \in (i + 1)..(j - 1) : IsDigit(s[x])

\* The citation markers of s, each from its "[" to its "]"
Markers(s) ==
    {m \in {i \in 1..Len(s) : s[i] = "["} \X {j \in 1..Len(s) : s[j] = "]"} :
        IsMarker(s, m[1], m[2])}

HasMarker(s) == Markers(s) # {}

\* The positions of s inside a citation marker
InMarker(s) == UNION {m[1]..m[2] : m \in Markers(s)}

\* t is s without the positions in gone
IsWithout(t, s, gone) ==
    /\ Len(t) = Len(s) - Cardinality(gone)
    /\ \A x \in (1..Len(s)) \ gone :
        t[x - Cardinality({y \in gone : y < x})] = s[x]

\* The paragraphs of d whose stripped text is longer than 80 characters
Long(d) == {i \in 1..Len(d) : Len(GetText(d[i])) > 80}
FirstLong(d) == CHOOSE i \in Long(d) : \A j \in Long(d) : i <= j

\* C2: when the document has a paragraph longer than 80 characters, the
\* string get_first_paragraph returns contains no citation marker.
C2_NoMarkerLeft ==
    (Returned /\ Long(doc) # {}) => ~HasMarker(fpRet.v)

\* C8: get_first_paragraph returns the text of the first paragraph whose
\* stripped text is longer than 80 characters, measured before the markers
\* are removed, without the characters of its citation markers; later
\* paragraphs do not matter; without such a paragraph it returns "".
C8_FirstLongParagraph ==
    Returned =>
        IF Long(doc) = {}
        THEN fpRet.v = <<>>
        ELSE LET text == GetText(doc[FirstLong(doc)])
             IN  /\ IsWithout(fpRet.v, text, InMarker(text))
                 /\ fpRet.v = get_first_paragraph(SubSeq(doc, 1, FirstLong(doc)))

\* A paragraph of exactly 80 characters was passed over, and the markers
\* of the next one, 81 characters with them, were removed.
C8_Witness ==
    /\ Returned
    /\ Len(doc) = 2
    /\ Len(GetText(doc[1])) = 80
    /\ Len(GetText(doc[2])) = 81
    /\ HasMarker(GetText(doc[2]))
    /\ Len(fpRet.v) = 78

\* The record has no reference URL: no key, None, or ""
NoReference(leader) ==
    \/ "wikipedia_url" \notin DOMAIN leader
    \/ leader["wikipedia_url"] = PyNone
    \/ leader["wikipedia_url"] = PyStr(<<>>)

\* The page behind the record's URL has a paragraph longer than 80 characters
PageQualifies(leader) ==
    Long(PageAt(Unquote(leader["wikipedia_url"].v))) # {}

\* C1: in both modes enrich_all_leaders returns a list as long as its input
\* whose i-th element is enrich_leader of the i-th input leader, whatever
\* the order the calls ended in.
C1_OrderPreserved ==
    pc = "returned" =>
        /\ Len(out) = Len(batch)
        /\ \A i \in 1..Len(batch) : out[i] = enrich_leader(batch[i])

\* A concurrent call returned after a later leader's call ended before an
\* earlier one's, the two results being different.
C1_Witness ==
    /\ pc = "returned"
    /\ use_multithreading
    /\ Len(batch) >= 2
    /\ finished[1] = 2
    /\ out[1] # out[2]

\* C3: a leader without reference URL costs no page GET and comes back
\* with the keys and values it had.
C3_NoUrlUnchanged ==
    \A i \in DOMAIN fut :
        NoReference(batch[i]) =>
            /\ i \notin pageGets
            /\ fut[i] # "raised"
            /\ fut[i] = "done" => res[i] = batch[i]

C3_Witness ==
    /\ pc = "returned"
    /\ \E i, j, n \in DOMAIN fut :
        /\ batch[i] = LeaderNone /\ out[i] = LeaderNone
        /\ batch[j] = LeaderEmpty /\ out[j] = LeaderEmpty
        /\ batch[n] = LeaderNoKey /\ out[n] = LeaderNoKey

\* C4 as claimed: a record has a summary only if its page has a paragraph
\* longer than 80 characters, and none when the page has no such paragraph.
C4_SummaryOnlyIfQualifying ==
    \A i \in DOMAIN fut :
        fut[i] = "done" =>
            /\ "summary" \in DOMAIN res[i] => (~NoReference(batch[i]) /\ PageQualifies(batch[i]))
            /\ (~NoReference(batch[i]) /\ ~PageQualifies(batch[i])) => "summary" \notin DOMAIN res[i]

\* C4, amended: a record has a summary exactly if its reference URL is
\* present and non-empty; when the page has no paragraph longer than 80
\* characters the summary is the empty string.
C4_SummaryIffUrl ==
    \A i \in DOMAIN fut :
        fut[i] = "done" =>
            /\ "summary" \in DOMAIN res[i] <=> ~NoReference(batch[i])
            /\ (~NoReference(batch[i]) /\ ~PageQualifies(batch[i])) =>
                   res[i]["summary"] = PyStr(<<>>)

C4_Witness ==
    \E i \in DOMAIN fut :
        /\ fut[i] = "done"
        /\ batch[i] = LeaderEncoded
        /\ res[i]["summary"] = PyStr(<<>>)

\* The entry stored last: the one of the country before the loop position
LastStored ==
    leaders_per_country.vals[IndexOf(leaders_per_country.keys, countries[cidx - 1])]

JustStored == pc = "loop" /\ cidx > 1

FirstEnriched(n) == [i \in 1..n |-> enrich_leader(upstream[i])]

\* C5 as claimed: with a limit set, the stored sequence has length
\* min(n, limit), for every integer limit.
C5_LengthIsMin ==
    (JustStored /\ limit_per_country # PyNone) =>
        Len(LastStored) = Min(Len(upstream), limit_per_country.v)

\* C5, amended: with a limit >= 0 the stored sequence is the first
\* min(n, limit) upstream leaders, enriched, in upstream order, and only
\* those were enriched; a limit < 0 keeps the first max(0, n + limit).
C5_FirstMinNonNegative ==
    limit_per_country # PyNone =>
        LET n == Len(upstream)
            kept == IF limit_per_country.v >= 0
                    THEN Min(n, limit_per_country.v)
                    ELSE Max(0, n + limit_per_country.v)
        IN  /\ JustStored => LastStored = FirstEnriched(kept)
            /\ pc \in {"seq", "map", "shutdown_ok", "shutdown_raise", "returned"} =>
                   (DOMAIN fut = 1..kept /\ \A i \in DOMAIN fut : batch[i] = upstream[i])

C5_Witness ==
    /\ JustStored
    /\ limit_per_country = PyInt(1)
    /\ Len(upstream) = 3
    /\ LastStored = <<enrich_leader(upstream[1])>>

Completed == pc \in {"fetched", "saved"}

\* C6 as claimed: the mapping has one key per element of the listing, in
\* the listing's order, and as many entries as the listing has elements.
C6_KeysAreListing ==
    Completed => leaders_data.keys = countries

FirstAt(code) == CHOOSE i \in 1..Len(countries) :
                     countries[i] = code /\ \A j \in 1..(i - 1) : countries[j] # code

\* C6, amended: the mapping has one key per distinct country code of the
\* listing and no other, in the order of the codes' first occurrences.
C6_KeysAreDistinctCodes ==
    Completed =>
        LET ks == leaders_data.keys
        IN  /\ {ks[i] : i \in 1..Len(ks)} = {countries[i] : i \in 1..Len(countries)}
            /\ Len(ks) = Cardinality({countries[i] : i \in 1..Len(countries)})
            /\ Len(leaders_data.vals) = Len(ks)
            /\ \A i, j \in 1..Len(ks) : i < j => FirstAt(ks[i]) < FirstAt(ks[j])

C6_Witness ==
    /\ Completed
    /\ countries = <<"be", "be">>
    /\ leaders_data.keys = <<"be">>

\* C7: get_countries and get_leaders each issue exactly one GET and, when
\* the API answers, return its JSON list.
C7_GettersIssueOneGet ==
    call.method \in {"get_countries", "get_leaders"} =>
        /\ call.gets = 1
        /\ call.outcome \in {"returned", "RequestException"}

\* C9: the main thread goes on to the next country, and stores a country's
\* entry, only when no call of the batch is queued or running and, in
\* concurrent mode, the pool is shut; the entry stored is the whole batch.
C9_NoCrossCountryParallelism ==
    /\ pc \in {"loop", "returned", "fetched", "saved"} =>
           (Running = {} /\ Pending = {} /\ pool # "open")
    /\ pool = "shut" => (Running = {} /\ Pending = {})
    /\ pc = "returned" =>
           /\ Len(out) = Len(batch)
           /\ \A i \in DOMAIN fut : fut[i] = "done"
           /\ use_multithreading => pool = "shut"
    /\ JustStored => Len(LastStored) = Len(batch)

\* Two calls of the second country run in parallel, the first country's
\* entry being stored.
C9_Witness ==
    /\ pc = "map"
    /\ cidx = 2
    /\ Len(leaders_per_country.keys) = 1
    /\ Cardinality(Running) = 2

Raised == \E i \in DOMAIN fut : fut[i] = "raised"

\* C10: once an enrich_leader call of a batch has raised, the batch is
\* never returned or stored, no later country is requested,
\* self.leaders_data keeps the value it had and no file is written.
C10_FailurePropagates ==
    Raised =>
        /\ pc \in {"map", "shutdown_raise", "failed"}
        /\ ~use_multithreading => pc = "failed"
        /\ Len(leaders_per_country.keys) < cidx
        /\ leaders_data = EmptyDict
        /\ file = NoFile
        /\ \A i \in DOMAIN fut : Cardinality({n \in 1..Len(finished) : finished[n] = i}) <= 1

\* A concurrent run failed in its first country's batch, another call of
\* which had ended well, with a country left in the listing.
C10_Witness ==
    /\ pc = "failed"
    /\ Raised
    /\ use_multithreading
    /\ \E i \in DOMAIN fut : fut[i] = "done"
    /\ cidx < Len(countries)

====
